---- MODULE Spec2Model ----
(***************************************************************************)
(* Model of src/mobilenet/index.js: camera acquisition with constraint     *)
(* fallback (setupCamera / loadVideo / initialStartLoop), the capture loop *)
(* (startLoop / trashFrame / predict / showResults) and the top-K ranking  *)
(* routine getTopKClasses.                                                 *)
(*                                                                         *)
(* Spec      : the page's life from the evaluation of the module on.       *)
(* SpecRank  : getTopKClasses applied to bounded score vectors and k.      *)
(***************************************************************************)
EXTENDS Integers, Sequences, FiniteSets, TLC

\* ---------------------------------------------------------------- bounds
MaxLen == 3        \* longest score vector handed to getTopKClasses in SpecRank
MaxScore == 2      \* score values are 0..MaxScore (stand-ins for float32 values)
NumClasses == 5    \* length of the classifier's output / of the label table
MaxIter == 3       \* iterations of the capture loop that are explored

\* ------------------------------------------------------ program constants
IMAGE_SIZE == 150
TOPK_PREDICTIONS == 5
OFFSET == 1          \* tf.scalar(1), the `offset` of predict
MaxPixel == 255      \* largest value of a pixel channel (unsigned 8 bit)

VARIABLES
  \* --- getTopKClasses call (SpecRank)
  rankPc,          \* "idle" | "called" | "done"
  logitsArg,       \* the values of the logits tensor, values[i] = logitsArg[i+1]
  topKArg,         \* the topK argument
  rankReturn,      \* the array returned (<<>> when it threw)
  rankError,       \* "none" | "TypeError"
  \* --- preprocessing of one pixel channel value (SpecPixel)
  pixelPc,         \* "idle" | "read" | "done"
  pixel,           \* the channel value fromPixels delivers
  normalized,      \* the value handed to the classifier
  \* --- start-up (mobilenetDemo)
  mediaApi,        \* navigator.mediaDevices.getUserMedia is available
  demoPc,          \* "start" | "awaitModel" | "done" | "failed"
  mobilenet,       \* "undefined" | "loaded"
  warmedUp,        \* the warm-up prediction has completed
  statusText,      \* demoStatusElement.innerText
  \* --- camera (setupCamera / loadVideo / initialStartLoop)
  attempts,        \* constraints of the getUserMedia calls made, in order
  outcomes,        \* "ok" / "fail" of the settled getUserMedia calls, in order
  camPc,           \* "idle" | "awaitStream" | "waitMeta" | "resolved" | "rejected"
  camError,        \* error setupCamera rejected with
  srcObject,       \* video.srcObject
  metadataLoaded,  \* the video element has fired loadedmetadata
  loadVideoPc,     \* "idle" | "await" | "returned"
  played,          \* video.play() was called
  video,           \* the global `video`
  initPromise,     \* promise returned by initialStartLoop
  consoleLog,      \* messages the program wrote with console.log
  \* --- capture loop
  iter,            \* number of trashFrame runs started
  rafPending,      \* animation-frame callbacks requested and not yet run
  inflight,        \* predict calls suspended at `await logits.data()`
  delivered,       \* iterations whose showResults ran, in order
  predictionsElement, \* children of the predictions element
  startLoopReturn, \* what the call of startLoop returned ("none": not called)
  ticks,           \* animation-frame callbacks the host has run
  liveTensors,     \* iterations whose logits tensor is allocated, not disposed
  failedIters      \* iterations whose predict call rejected

rankVars == <<rankPc, logitsArg, topKArg, rankReturn, rankError>>
pixelVars == <<pixelPc, pixel, normalized>>
demoVars == <<mediaApi, demoPc, mobilenet, warmedUp, statusText>>
camVars  == <<attempts, outcomes, camPc, camError, srcObject, metadataLoaded,
              loadVideoPc, played, video, initPromise, consoleLog>>
loopVars == <<iter, rafPending, inflight, delivered, predictionsElement,
              startLoopReturn, ticks, liveTensors, failedIters>>
vars == <<rankVars, pixelVars, demoVars, camVars, loopVars>>

\* =========================================================================
\* getTopKClasses
\* =========================================================================

\* The class-label table: index i -> label of class i.
IMAGENET_CLASSES == [i \in 0..(NumClasses - 1) |-> <<"class", i>>]

\* IMAGENET_CLASSES[i]; an index outside the table reads `undefined`.
ClassName(i) ==
  IF i \in DOMAIN IMAGENET_CLASSES THEN IMAGENET_CLASSES[i] ELSE <<"undefined", 0>>

\* lines 192-195: pair every value with its 0-based index.
valuesAndIndices(values) ==
  [i \in 1..Len(values) |-> [value |-> values[i], index |-> i - 1]]

compareFn_Ascending(a, b) == a.value - b.value
\* lines 196-198: the comparator handed to sort.
compareFn(a, b) == b.value - a.value

RECURSIVE InsertSorted(_, _)
\* x goes before the first element the comparator orders after it.
InsertSorted(x, L) ==
  IF L = <<>> THEN <<x>>
  ELSE IF compareFn(Head(L), x) > 0 THEN <<x>> \o L
       ELSE <<Head(L)>> \o InsertSorted(x, Tail(L))

RECURSIVE sort(_)
\* Array.prototype.sort: a stable sort by compareFn.
sort(A) ==
  IF A = <<>> THEN <<>>
  ELSE InsertSorted(A[Len(A)], sort(SubSeq(A, 1, Len(A) - 1)))

ReadsUndefined_Never(sorted, topK) == FALSE
ReadsUndefined_OffByOne(sorted, topK) == \E i \in 0..topK : i >= Len(sorted)
\* lines 201-204: some i < topK has valuesAndIndices[i] undefined, so that
\* reading its .value throws a TypeError.
ReadsUndefined(sorted, topK) == \E i \in 0..(topK - 1) : i >= Len(sorted)

\* lines 199, 202: Float32Array(topK), zero-filled, then filled from the pairs.
topkValues(sorted, topK) ==
  [i \in 1..topK |-> IF i <= Len(sorted) THEN sorted[i].value ELSE 0]

topkIndices_Position(sorted, topK) == [i \in 1..topK |-> i - 1]
\* lines 200, 203: Int32Array(topK), zero-filled, then filled from the pairs.
topkIndices(sorted, topK) ==
  [i \in 1..topK |-> IF i <= Len(sorted) THEN sorted[i].index ELSE 0]

\* lines 206-213
topClassesAndProbs(indices, vals) ==
  [i \in 1..Len(indices) |->
     [className |-> ClassName(indices[i]), probability |-> vals[i]]]

\* lines 189-214: outcome of getTopKClasses(logits, topK) once logits.data()
\* has delivered `values`.
getTopKClasses(values, topK) ==
  LET sorted == sort(valuesAndIndices(values)) IN
  IF ReadsUndefined(sorted, topK)
  THEN [threw |-> TRUE, error |-> "TypeError", value |-> <<>>]
  ELSE [threw |-> FALSE, error |-> "none",
        value |-> topClassesAndProbs(topkIndices(sorted, topK),
                                     topkValues(sorted, topK))]

\* =========================================================================
\* State before the module's last line (mobilenetDemo()) runs
\* =========================================================================
InitDemo ==
  /\ mediaApi \in BOOLEAN
  /\ demoPc = "start"
  /\ mobilenet = "undefined"
  /\ warmedUp = FALSE
  /\ statusText = ""

InitCam ==
  /\ attempts = <<>>
  /\ outcomes = <<>>
  /\ camPc = "idle"
  /\ camError = "none"
  /\ srcObject = "null"
  /\ metadataLoaded = FALSE
  /\ loadVideoPc = "idle"
  /\ played = FALSE
  /\ video = "undefined"
  /\ initPromise = "none"
  /\ consoleLog = {}

InitLoop ==
  /\ iter = 0
  /\ rafPending = 0
  /\ inflight = {}
  /\ delivered = <<>>
  /\ predictionsElement = <<>>
  /\ startLoopReturn = "none"
  /\ ticks = 0
  /\ liveTensors = {}
  /\ failedIters = {}

\* no pixel is being preprocessed
InitPixel ==
  /\ pixelPc = "idle"
  /\ pixel = 0
  /\ normalized = [num |-> 0, den |-> 1]

\* no call of getTopKClasses from outside the page
InitRankIdle ==
  /\ rankPc = "idle"
  /\ logitsArg = <<>>
  /\ topKArg = 0
  /\ rankReturn = <<>>
  /\ rankError = "none"

\* =========================================================================
\* SpecRank: getTopKClasses on bounded inputs
\* =========================================================================
ScoreValues == 0..MaxScore
ScoreVectors == UNION {[1..n -> ScoreValues] : n \in 0..MaxLen}

InitRank ==
  /\ rankPc = "called"
  /\ logitsArg \in ScoreVectors
  /\ topKArg \in 0..(MaxLen + 1)
  /\ rankReturn = <<>>
  /\ rankError = "none"
  /\ InitPixel /\ InitDemo /\ InitCam /\ InitLoop

\* the call runs to its return or throw
RankCall ==
  /\ rankPc = "called"
  /\ LET r == getTopKClasses(logitsArg, topKArg) IN
       /\ rankReturn' = r.value
       /\ rankError' = r.error
  /\ rankPc' = "done"
  /\ UNCHANGED <<logitsArg, topKArg, pixelVars, demoVars, camVars, loopVars>>

NextRank == RankCall
SpecRank == InitRank /\ [][NextRank]_vars

\* =========================================================================
\* SpecPixel: the normalisation of predict on every pixel channel value
\* =========================================================================

\* lines 160-162: img.sub(offset).div(offset) on one channel value. The
\* result is kept as the numerator over the denominator OFFSET.
Normalize(p) == [num |-> p - OFFSET, den |-> OFFSET]

InitPixelRead ==
  /\ pixelPc = "read"
  /\ pixel \in 0..MaxPixel
  /\ normalized = [num |-> 0, den |-> 1]
  /\ InitRankIdle /\ InitDemo /\ InitCam /\ InitLoop

\* lines 158-162 applied to the channel value
Preprocess ==
  /\ pixelPc = "read"
  /\ normalized' = Normalize(pixel)
  /\ pixelPc' = "done"
  /\ UNCHANGED <<pixel, rankVars, demoVars, camVars, loopVars>>

NextPixel == Preprocess
SpecPixel == InitPixelRead /\ [][NextPixel]_vars

\* =========================================================================
\* Spec: the page
\* =========================================================================

\* lines 253-254
status(msg) == statusText' = msg

\* lines 37-44: first request, the preferred width/height given as bare values.
\* A size constraint is <<v>> for the bare value v, <<lo, hi>> for
\* {min: lo, max: hi} and <<>> when the key is absent.
ExactConstraints ==
  [audio |-> FALSE, facingMode |-> "user",
   width |-> <<IMAGE_SIZE>>, height |-> <<IMAGE_SIZE>>]

RangeConstraints_NoSize ==
  [audio |-> FALSE, facingMode |-> "user", width |-> <<>>, height |-> <<>>]
\* lines 48-55: second request, width/height as ranges.
RangeConstraints ==
  [audio |-> FALSE, facingMode |-> "user",
   width |-> <<0, IMAGE_SIZE>>, height |-> <<0, IMAGE_SIZE>>]

\* lines 58-63: third request, the orientation alone.
NoSizeConstraints ==
  [audio |-> FALSE, facingMode |-> "user", width |-> <<>>, height |-> <<>>]

\* line 258, lines 128-131: mobilenetDemo up to `await tf.loadLayersModel`.
MobilenetDemo ==
  /\ demoPc = "start"
  /\ status("Loading model...")
  /\ demoPc' = "awaitModel"
  /\ UNCHANGED <<rankVars, pixelVars, mediaApi, mobilenet, warmedUp, camVars, loopVars>>

\* line 131: the model fails to load; mobilenetDemo's promise rejects.
LoadLayersModelRejects ==
  /\ demoPc = "awaitModel"
  /\ demoPc' = "failed"
  /\ UNCHANGED <<rankVars, pixelVars, mediaApi, mobilenet, warmedUp, statusText, camVars,
                 loopVars>>

SetupCameraStart_NoApiCheck ==
  /\ initPromise' = "pending"
  /\ loadVideoPc' = "await"
  /\ camPc' = "awaitStream"
  /\ attempts' = Append(attempts, ExactConstraints)
  /\ UNCHANGED <<camError, consoleLog, outcomes, srcObject, metadataLoaded,
                 played, video>>

\* lines 26-44: setupCamera up to its first await (entered from
\* initialStartLoop -> loadVideo, lines 105-107 and 76).
SetupCameraStart ==
  /\ initPromise' = "pending"
  /\ loadVideoPc' = "await"
  /\ IF ~mediaApi
     THEN /\ camPc' = "rejected"
          /\ camError' = "ApiNotAvailable"
          /\ attempts' = attempts
          /\ consoleLog' = consoleLog \cup {"No available devices!!!"}
     ELSE /\ camPc' = "awaitStream"
          /\ camError' = camError
          /\ attempts' = Append(attempts, ExactConstraints)
          /\ consoleLog' = consoleLog
  /\ UNCHANGED <<outcomes, srcObject, metadataLoaded, played, video>>

\* lines 131-140: the model is loaded; warm-up, status(''), initialStartLoop().
LoadLayersModelResolves ==
  /\ demoPc = "awaitModel"
  /\ mobilenet' = "loaded"
  /\ \/ \* line 136: the warm-up prediction throws
        /\ demoPc' = "failed"
        /\ UNCHANGED <<warmedUp, statusText, camVars>>
     \/ /\ warmedUp' = TRUE
        /\ status("")
        /\ SetupCameraStart
        /\ demoPc' = "done"
  /\ UNCHANGED <<rankVars, pixelVars, mediaApi, loopVars>>

\* lines 37, 48, 58 resolve; lines 66-72: srcObject and the metadata handler.
GetUserMediaResolves ==
  /\ camPc = "awaitStream"
  /\ outcomes' = Append(outcomes, "ok")
  /\ srcObject' = "stream"
  /\ camPc' = "waitMeta"
  /\ UNCHANGED <<rankVars, pixelVars, demoVars, attempts, camError, metadataLoaded,
                 loadVideoPc, played, video, initPromise, consoleLog,
                 loopVars>>

AfterThirdRejection_Swallowed == "waitMeta"
\* lines 58-63 are in no try block: the third rejection rejects setupCamera.
AfterThirdRejection == "rejected"

\* lines 45-47, 56-57: a request rejects; the next one, if any, is made.
GetUserMediaRejects ==
  /\ camPc = "awaitStream"
  /\ outcomes' = Append(outcomes, "fail")
  /\ \/ /\ Len(attempts) = 1
        /\ attempts' = Append(attempts, RangeConstraints)
        /\ consoleLog' = consoleLog \cup {"Failed exact webcam"}
        /\ UNCHANGED <<camPc, camError>>
     \/ /\ Len(attempts) = 2
        /\ attempts' = Append(attempts, NoSizeConstraints)
        /\ consoleLog' = consoleLog \cup {"Failed all width/height params"}
        /\ UNCHANGED <<camPc, camError>>
     \/ /\ Len(attempts) = 3
        /\ camPc' = AfterThirdRejection
        /\ camError' = "GetUserMediaError"
        /\ UNCHANGED <<attempts, consoleLog>>
  /\ UNCHANGED <<rankVars, pixelVars, demoVars, srcObject, metadataLoaded, loadVideoPc,
                 played, video, initPromise, loopVars>>

\* lines 69-71: the video element fires loadedmetadata; the handler resolves.
OnLoadedMetadata ==
  /\ camPc = "waitMeta"
  /\ srcObject = "stream"
  /\ metadataLoaded' = TRUE
  /\ camPc' = "resolved"
  /\ UNCHANGED <<rankVars, pixelVars, demoVars, attempts, outcomes, camError, srcObject,
                 loadVideoPc, played, video, initPromise, consoleLog,
                 loopVars>>

SetupCameraResolved_NoWait == camPc \in {"waitMeta", "resolved"}
\* lines 68-72, 76: `await setupCamera()` continues once the promise made at
\* line 68 is resolved.
SetupCameraResolved == camPc = "resolved"

\* lines 76-79: loadVideo after its await.
LoadVideoResume ==
  /\ loadVideoPc = "await"
  /\ SetupCameraResolved
  /\ played' = TRUE
  /\ loadVideoPc' = "returned"
  /\ UNCHANGED <<rankVars, pixelVars, demoVars, attempts, outcomes, camPc, camError,
                 srcObject, metadataLoaded, video, initPromise, consoleLog,
                 loopVars>>

\* lines 76, 107-111: setupCamera rejected; loadVideo rejects, initialStartLoop
\* logs and rejects.
InitialStartLoopCatch ==
  /\ loadVideoPc = "await"
  /\ camPc = "rejected"
  /\ initPromise = "pending"
  /\ loadVideoPc' = "rejected"
  /\ initPromise' = "rejected"
  /\ consoleLog' = consoleLog \cup {"Error"}
  /\ UNCHANGED <<rankVars, pixelVars, demoVars, attempts, outcomes, camPc, camError,
                 srcObject, metadataLoaded, played, video, loopVars>>

\* The classifier's possible outputs: one score vector per winning class.
ClassifierOutputs ==
  {[i \in 1..NumClasses |-> IF i = c THEN 1 ELSE 0] : c \in 1..NumClasses}

trashFrame_NoReschedule(pendingBefore) ==
  /\ iter < MaxIter
  /\ iter' = iter + 1
  /\ status("Predicting...")
  /\ \/ \* lines 156-170 throw: tf.tidy disposes what was allocated, predict's
        \* promise rejects, nobody awaits it
        /\ failedIters' = failedIters \cup {iter + 1}
        /\ UNCHANGED <<inflight, liveTensors>>
     \/ \* tf.tidy disposes the intermediates and keeps the returned logits
        /\ \E lg \in ClassifierOutputs :
             inflight' = inflight \cup {[iter |-> iter + 1, logits |-> lg]}
        /\ liveTensors' = liveTensors \cup {iter + 1}
        /\ UNCHANGED failedIters
  /\ rafPending' = pendingBefore
  /\ UNCHANGED <<delivered, predictionsElement>>

trashFrame_DoubleRequest(pendingBefore) ==
  /\ iter < MaxIter
  /\ iter' = iter + 1
  /\ status("Predicting...")
  /\ \/ \* lines 156-170 throw: tf.tidy disposes what was allocated, predict's
        \* promise rejects, nobody awaits it
        /\ failedIters' = failedIters \cup {iter + 1}
        /\ UNCHANGED <<inflight, liveTensors>>
     \/ \* tf.tidy disposes the intermediates and keeps the returned logits
        /\ \E lg \in ClassifierOutputs :
             inflight' = inflight \cup {[iter |-> iter + 1, logits |-> lg]}
        /\ liveTensors' = liveTensors \cup {iter + 1}
        /\ UNCHANGED failedIters
  /\ rafPending' = pendingBefore + 2
  /\ UNCHANGED <<delivered, predictionsElement>>

\* lines 87-97 (with lines 147-173 of predict, which runs synchronously up to
\* `await logits.data()`): one run of trashFrame. pendingBefore is the number
\* of animation-frame callbacks pending when the run starts.
trashFrame(pendingBefore) ==
  /\ iter < MaxIter
  /\ iter' = iter + 1
  /\ status("Predicting...")
  /\ \/ \* lines 156-170 throw: tf.tidy disposes what was allocated, predict's
        \* promise rejects, nobody awaits it
        /\ failedIters' = failedIters \cup {iter + 1}
        /\ UNCHANGED <<inflight, liveTensors>>
     \/ \* tf.tidy disposes the intermediates and keeps the returned logits
        /\ \E lg \in ClassifierOutputs :
             inflight' = inflight \cup {[iter |-> iter + 1, logits |-> lg]}
        /\ liveTensors' = liveTensors \cup {iter + 1}
        /\ UNCHANGED failedIters
  /\ rafPending' = pendingBefore + 1
  /\ UNCHANGED <<delivered, predictionsElement>>

LoadVideoReturned_NoAwait == loadVideoPc \in {"await", "returned"}
\* line 107: `await loadVideo()` continues once loadVideo has returned.
LoadVideoReturned == loadVideoPc = "returned"

\* lines 107, 114-115: initialStartLoop after loadVideo returned; startLoop
\* runs trashFrame for the first time (line 100).
InitialStartLoopResume ==
  /\ LoadVideoReturned
  /\ initPromise = "pending"
  /\ video' = "cameraEmbed"
  /\ trashFrame(rafPending)
  /\ startLoopReturn' = "undefined"
  /\ initPromise' = "resolved"
  /\ UNCHANGED <<ticks, consoleLog>>
  /\ UNCHANGED <<rankVars, pixelVars, mediaApi, demoPc, mobilenet, warmedUp, attempts,
                 outcomes, camPc, camError, srcObject, metadataLoaded,
                 loadVideoPc, played>>

\* line 97: a callback requested with requestAnimationFrame is due.
FramePending == rafPending > 0

\* line 97: the host runs the requested animation-frame callback.
AnimationFrame ==
  /\ FramePending
  /\ trashFrame(rafPending - 1)
  /\ ticks' = ticks + 1
  /\ UNCHANGED startLoopReturn
  /\ UNCHANGED <<rankVars, pixelVars, mediaApi, demoPc, mobilenet, warmedUp, camVars>>

showResults_NoClear(it, classes) ==
  /\ predictionsElement' =
       <<[iter |-> it, classes |-> classes]>> \o predictionsElement
  /\ delivered' = Append(delivered, it)
\* lines 220-250: a container is built for the classes; the predictions
\* element is emptied (line 247) and the container inserted before its first
\* child (lines 248-249).
showResults(it, classes) ==
  /\ LET emptied == <<>> IN
       predictionsElement' = <<[iter |-> it, classes |-> classes]>> \o emptied
  /\ delivered' = Append(delivered, it)

\* lines 173-180, 190-213: logits.data() of one suspended predict resolves.
\* Nothing disposes the logits tensor.
DataResolves ==
  \E p \in inflight :
    /\ inflight' = inflight \ {p}
    /\ LET r == getTopKClasses(p.logits, TOPK_PREDICTIONS) IN
         IF r.threw
         THEN /\ failedIters' = failedIters \cup {p.iter}
              /\ UNCHANGED <<statusText, delivered, predictionsElement>>
         ELSE /\ status("Done")
              /\ showResults(p.iter, r.value)
              /\ UNCHANGED failedIters
    /\ UNCHANGED <<rankVars, pixelVars, mediaApi, demoPc, mobilenet, warmedUp,
                   camVars, iter, rafPending, startLoopReturn, ticks,
                   liveTensors>>

Init == InitRankIdle /\ InitPixel /\ InitDemo /\ InitCam /\ InitLoop

Next ==
  \/ MobilenetDemo
  \/ LoadLayersModelRejects
  \/ LoadLayersModelResolves
  \/ GetUserMediaResolves
  \/ GetUserMediaRejects
  \/ OnLoadedMetadata
  \/ LoadVideoResume
  \/ InitialStartLoopCatch
  \/ InitialStartLoopResume
  \/ AnimationFrame
  \/ DataResolves

Spec == Init /\ [][Next]_vars

\* The host keeps running requested animation-frame callbacks.
SpecLive == Init /\ [][Next]_vars /\ WF_vars(AnimationFrame)

\* =========================================================================
\* Properties of getTopKClasses (SpecRank)
\* =========================================================================

RankDone == rankPc = "done"
RankReturned == RankDone /\ rankError = "none"

\* the index whose label is l
IndexOfLabel(l) == CHOOSE i \in DOMAIN IMAGENET_CLASSES : IMAGENET_CLASSES[i] = l

\* C1: for a non-empty score vector and 0 <= k <= len(s), the call returns
\* exactly k entries, by probability descending, and entries of equal
\* probability in ascending order of their original index (k = 0: empty).
C1_TopKOrdered ==
  (RankDone /\ Len(logitsArg) >= 1 /\ topKArg <= Len(logitsArg)) =>
     /\ rankError = "none"
     /\ Len(rankReturn) = topKArg
     /\ (topKArg = 0 => rankReturn = <<>>)
     /\ \A i, j \in 1..Len(rankReturn) :
          i < j =>
            /\ rankReturn[i].probability >= rankReturn[j].probability
            /\ (rankReturn[i].probability = rankReturn[j].probability =>
                  IndexOfLabel(rankReturn[i].className)
                    < IndexOfLabel(rankReturn[j].className))

\* C1 witness: a call with k = 2 <= len(s) returned two entries of equal
\* probability.
C1_Witness ==
  /\ RankReturned /\ topKArg = 2 /\ Len(logitsArg) = 3
  /\ Len(rankReturn) = 2
  /\ rankReturn[1].probability = rankReturn[2].probability
  /\ logitsArg[1] < logitsArg[2]

C3_TooLargeKFails ==
  (RankDone /\ topKArg > Len(logitsArg)) =>
     /\ rankError = "TypeError"
     /\ rankReturn = <<>>

\* C3 witness: a call with a non-empty vector and k = len(s) + 1 has failed.
C3_Witness ==
  /\ RankDone /\ Len(logitsArg) = 2 /\ topKArg = 3
  /\ rankError = "TypeError"

\* C4 as stated: with an empty score vector the call fails for every k,
\* k = 0 included.
C4_EmptyAlwaysFails ==
  (RankDone /\ Len(logitsArg) = 0) => rankError # "none"

\* C4 as amended: with an empty score vector the call fails for every
\* k >= 1, and returns the empty result for k = 0.
C4_EmptyFailsForPositiveK ==
  (RankDone /\ Len(logitsArg) = 0) =>
     /\ rankReturn = <<>>
     /\ (topKArg >= 1 => rankError = "TypeError")
     /\ (topKArg = 0 => rankError = "none")

\* C4 witness: the call on the empty vector with k = 1 has failed.
C4_Witness ==
  /\ RankDone /\ logitsArg = <<>> /\ topKArg = 1
  /\ rankError = "TypeError"

\* =========================================================================
\* Properties of the camera acquisition (Spec)
\* =========================================================================

\* C6: the requests are made in the order exact size, size ranges, no size,
\* all front-facing; a request is made only after every earlier one failed,
\* none after a success; fail, fail, ok means exactly three requests.
C6_AttemptOrder ==
  /\ Len(attempts) <= 3
  /\ \A i \in 1..Len(attempts) :
       /\ attempts[i].facingMode = "user"
       /\ (i = 1 => /\ attempts[i].width = <<IMAGE_SIZE>>
                    /\ attempts[i].height = <<IMAGE_SIZE>>)
       /\ (i = 2 => /\ attempts[i].width = <<0, IMAGE_SIZE>>
                    /\ attempts[i].height = <<0, IMAGE_SIZE>>)
       /\ (i = 3 => /\ attempts[i].width = <<>>
                    /\ attempts[i].height = <<>>)
  /\ Len(outcomes) <= Len(attempts)
  /\ \A i \in 1..Len(attempts) :
       i < Len(attempts) => (i <= Len(outcomes) /\ outcomes[i] = "fail")
  /\ \A i \in 1..Len(outcomes) : outcomes[i] = "ok" => Len(attempts) = i
  /\ (outcomes = <<"fail", "fail", "ok">> => Len(attempts) = 3)

\* C6 witness: the first two requests failed and the third succeeded.
C6_Witness ==
  /\ outcomes = <<"fail", "fail", "ok">>
  /\ Len(attempts) = 3
  /\ srcObject = "stream"

\* C7: never more than three requests; when all three fail setupCamera
\* rejects with the third request's error, no stream is attached, the
\* promise of initialStartLoop is never resolved and the loop never starts.
C7_AllFailSurfaces ==
  /\ Len(attempts) <= 3
  /\ Len(outcomes) <= 3
  /\ (outcomes = <<"fail", "fail", "fail">> =>
        /\ Len(attempts) = 3
        /\ camPc = "rejected"
        /\ camError = "GetUserMediaError"
        /\ srcObject = "null"
        /\ initPromise \in {"pending", "rejected"}
        /\ loadVideoPc \in {"await", "rejected"}
        /\ iter = 0)

\* C7 witness: three failed requests, and initialStartLoop has rejected.
C7_Witness ==
  /\ outcomes = <<"fail", "fail", "fail">>
  /\ camPc = "rejected"
  /\ initPromise = "rejected"

\* C8: setupCamera's promise is resolved, video.play() is called and a frame
\* is captured only after the video element reported its metadata loaded.
C8_MetadataFirst ==
  /\ (camPc = "resolved" => metadataLoaded)
  /\ (loadVideoPc = "returned" => metadataLoaded)
  /\ (played => metadataLoaded)
  /\ (iter > 0 => (metadataLoaded /\ played))

\* C8 witness: metadata loaded, the video playing and a frame captured.
C8_Witness == metadataLoaded /\ played /\ iter >= 1 /\ camPc = "resolved"

\* =========================================================================
\* Properties of the capture loop (Spec)
\* =========================================================================

\* C9 as stated: no iteration starts while an earlier iteration's predict is
\* still waiting to deliver to showResults, and at most one classification
\* is in flight.
C9_NoOverlap ==
  /\ Cardinality(inflight) <= 1
  /\ \A p \in inflight : p.iter = iter

\* C10 as stated: showResults is called in the order in which the frames
\* were captured.
C10_DeliveredInOrder ==
  \A i, j \in 1..Len(delivered) : i < j => delivered[i] < delivered[j]

\* =========================================================================
\* Properties of the capture loop, continued (Spec, SpecLive, SpecPixel)
\* =========================================================================

\* C11 as stated: starting the loop hands back a cancellation handle (with
\* which a later iteration could be prevented).
C11_ReturnsCancellationHandle ==
  startLoopReturn # "none" => startLoopReturn = "handle"

\* what the program itself writes to the console (lines 28, 47, 57, 109)
CameraLogMessages ==
  {"No available devices!!!", "Failed exact webcam",
   "Failed all width/height params", "Error"}

\* the status texts of the phases (lines 129, 138, 148, 176)
PhaseMessages == {"", "Loading model...", "Predicting...", "Done"}

IsErrorMessage(msg) == msg \notin PhaseMessages

\* C12 as stated: an iteration whose step raised an error delivers nothing,
\* the error is logged or shown as the status, and the loop goes on.
C12_ErrorIsReportedAndSkipped ==
  \A n \in failedIters :
    /\ \A i \in 1..Len(delivered) : delivered[i] # n
    /\ rafPending >= 1
    /\ (n = iter =>
          \/ IsErrorMessage(statusText)
          \/ \E m \in consoleLog : m \notin CameraLogMessages)

\* C13: once started the loop is never without a requested animation frame,
\* an iteration starts only with a tick and one at a time, and (the host
\* running the requested callbacks) every iteration is followed by the next.
C13_LoopKeepsRunning ==
  /\ [](startLoopReturn # "none" => rafPending >= 1)
  /\ [][iter' # iter =>
          /\ iter' = iter + 1
          /\ (iter > 0 => ticks' = ticks + 1)]_vars
  /\ \A n \in 1..(MaxIter - 1) : (iter = n) ~> (iter = n + 1)

\* C13 witness: every explored iteration has run, each but the first on a
\* tick.
C13_Witness == iter = MaxIter /\ ticks = MaxIter - 1 /\ rafPending = 1

\* C14 as stated: a tensor acquired in an iteration is released before the
\* next iteration begins, so only the current iteration can own a live one.
C14_TensorsReleased == liveTensors \subseteq {iter}

\* C15 as stated: the normalisation sends every channel value 0..255 into
\* [-1, 1], 0 to -1 and 255 to 1.
C15_NormalizedInRange ==
  pixelPc = "done" =>
    /\ -normalized.den <= normalized.num
    /\ normalized.num <= normalized.den
    /\ (pixel = 0 => normalized.num = -normalized.den)
    /\ (pixel = MaxPixel => normalized.num = normalized.den)

\* C16 as stated: after a failure (model load or warm-up, camera
\* acquisition, the latest predict call) the status shows an error message.
C16_FailureShowsError ==
  /\ (demoPc = "failed" => IsErrorMessage(statusText))
  /\ (initPromise = "rejected" => IsErrorMessage(statusText))
  /\ (iter \in failedIters => IsErrorMessage(statusText))

\* C17: the camera is asked for only after the model is loaded and warmed
\* up, and trashFrame/predict run only after that and after the camera was
\* acquired and the video started.
C17_StartupOrder ==
  /\ (warmedUp => mobilenet = "loaded")
  /\ ((camPc # "idle" \/ attempts # <<>> \/ initPromise # "none") =>
        (mobilenet = "loaded" /\ warmedUp))
  /\ ((iter > 0 \/ inflight # {} \/ liveTensors # {} \/ failedIters # {}) =>
        /\ mobilenet = "loaded" /\ warmedUp
        /\ camPc = "resolved" /\ played)

\* C17 witness: the first predict call is suspended, after model load,
\* warm-up and camera acquisition.
C17_Witness ==
  /\ iter = 1 /\ inflight # {}
  /\ mobilenet = "loaded" /\ warmedUp /\ camPc = "resolved"

\* C18: without the media API no request is made; once setupCamera has
\* rejected, startLoop is never called, no frame is captured, no predict
\* call is issued and initialStartLoop's promise is not resolved.
C18_NoLoopWithoutCamera ==
  /\ (~mediaApi => (attempts = <<>> /\ outcomes = <<>>))
  /\ ((~mediaApi \/ camPc = "rejected") =>
        /\ startLoopReturn = "none"
        /\ iter = 0 /\ ticks = 0 /\ rafPending = 0
        /\ inflight = {} /\ failedIters = {} /\ delivered = <<>>
        /\ initPromise # "resolved")

\* C18 witness: the media API is missing and initialStartLoop has rejected.
C18_Witness ==
  /\ ~mediaApi /\ camError = "ApiNotAvailable"
  /\ initPromise = "rejected" /\ attempts = <<>>

\* C19: at most one animation-frame callback is pending, and the iterations
\* started never exceed the ticks run plus one.
C19_SingleChain ==
  /\ rafPending <= 1
  /\ iter <= ticks + 1

\* C19 witness: the second iteration has run on the first tick and requested
\* the next.
C19_Witness == iter = 2 /\ ticks = 1 /\ rafPending = 1

\* C20: after showResults calls in any order the predictions element holds
\* exactly one container, that of the last showResults call.
C20_OneContainer ==
  /\ (delivered = <<>> => predictionsElement = <<>>)
  /\ (delivered # <<>> =>
        /\ Len(predictionsElement) = 1
        /\ predictionsElement[1].iter = delivered[Len(delivered)])

\* C20 witness: two results were shown, the later frame's first, and the
\* element holds the one shown last.
C20_Witness ==
  /\ Len(delivered) = 2 /\ delivered[1] > delivered[2]
  /\ Len(predictionsElement) = 1
  /\ predictionsElement[1].iter = delivered[2]

====
